---- MODULE Spec2Model ----
(***************************************************************************)
(* Contacts API (FastAPI): authentication, refresh-token rotation, the     *)
(* Redis look-aside cache of the authentication gate, the role gate and    *)
(* the contacts of each user.                                              *)
(*                                                                         *)
(* users  : the users table, one row per email (None when no row exists)   *)
(* cache  : the Redis cache, key = email, value = pickled user + TTL       *)
(* now    : the wall clock in whole seconds (JWT iat/exp are whole seconds)*)
(* issued : every token the service has handed out so far                  *)
(* reqs   : requests in flight that are suspended between two steps        *)
(* last   : the response of the request that completed most recently       *)
(* answered : history of the refresh requests that presented a refresh     *)
(*          token of the service: slot, token and answer                   *)
(* contacts : the contacts table in id order: row i has id i, a deleted    *)
(*          row leaves None behind (ids come from a sequence, never reused)*)
(***************************************************************************)
EXTENDS Integers, FiniteSets, Sequences, TLC

VARIABLES users, cache, now, ticks, issued, reqs, last, answered, contacts

vars == <<users, cache, now, ticks, issued, reqs, last, answered, contacts>>

---------------------------------------------------------------------------
(* Bounds of the model *)

\* number of clock advances in one behaviour
MaxTicks == 1
\* request slots: how many requests can be in flight at the same time
ReqIds == {1, 2}
\* the slots the protected routes use
GateReqs == {1}
\* number of access/refresh pairs the service hands out in one behaviour
MaxPairs == 2
\* the same, in behaviours of the protected routes
MaxGatePairs == 1

Emails == {"a@x.com", "b@x.com"}
Passwords == {"secret1"}
\* what a login attempt may type
Guesses == Passwords \cup {"wrong-pw"}
\* clock advances, in seconds: 299 + 1 crosses the cache TTL, 901 crosses
\* the access-token lifetime
Deltas == {299, 300, 901}
Versions == {1}

---------------------------------------------------------------------------
(* Program constants *)

ACCESS_TTL == 900
REFRESH_TTL == 604800
EMAIL_TTL == 86400
CACHE_TTL == 300
SECRET_KEY == "SECRET_KEY_JWT"

\* Python's None, for a missing row, a NULL column, a missing cache key
None == [none |-> TRUE]

---------------------------------------------------------------------------
(* passlib: hashing and verification of passwords *)

get_password_hash(password) == [bcrypt |-> password]

verify_password(plain_password, hashed_password) ==
    hashed_password = [bcrypt |-> plain_password]

---------------------------------------------------------------------------
(* python-jose: a token is its claims signed with a key *)

JWTError == [error |-> "JWTError"]

jwt_encode(claims, key) == [fmt |-> "jwt", claims |-> claims, key |-> key]

\* signature, structure and expiry are checked; exp < now is expired
jwt_decode(token, key, t) ==
    IF token.fmt # "jwt" THEN JWTError
    ELSE IF token.key # key THEN JWTError
    ELSE IF "exp" \in DOMAIN token.claims /\ token.claims.exp < t THEN JWTError
    ELSE token.claims

\* dict.update: the new entries win
dict_update(d, u) == u @@ d

create_access_token(data, t) ==
    jwt_encode(dict_update(data, [iat |-> t, exp |-> t + ACCESS_TTL,
                                  scope |-> "access_token"]), SECRET_KEY)

create_refresh_token(data, t) ==
    jwt_encode(dict_update(data, [iat |-> t, exp |-> t + REFRESH_TTL,
                                  scope |-> "refresh_token"]), SECRET_KEY)

create_email_token(data, t) ==
    jwt_encode(dict_update(data, [iat |-> t, exp |-> t + EMAIL_TTL]),
               SECRET_KEY)

\* an HTTP error response raised by a handler or a dependency
HTTPException(status_code, detail) ==
    [ok |-> FALSE, status |-> status_code, detail |-> detail]

\* an exception no handler catches: the server answers 500
Unhandled(exc) == [ok |-> FALSE, status |-> 500, detail |-> exc]

Return(value) == [ok |-> TRUE, value |-> value]

\* the refresh-token verification: reads the claim named 'score'
decode_refresh_token(refresh_token, t) ==
    LET payload == jwt_decode(refresh_token, SECRET_KEY, t) IN
    IF payload = JWTError
    THEN HTTPException(401, "Could not validate credentials")
    ELSE IF ~("score" \in DOMAIN payload) THEN Unhandled("KeyError: 'score'")
    ELSE IF payload.score = "refresh_token"
    THEN IF "sub" \in DOMAIN payload THEN Return(payload.sub)
         ELSE Unhandled("KeyError: 'sub'")
    ELSE HTTPException(401, "Invalid scope for requested token")

get_email_from_token(token, t) ==
    LET payload == jwt_decode(token, SECRET_KEY, t) IN
    IF payload = JWTError
    THEN HTTPException(401, "Could not validate credentials")
    ELSE IF "sub" \in DOMAIN payload THEN Return(payload.sub)
    ELSE Unhandled("KeyError: 'sub'")

\* the token check of the authentication gate (the bearer scheme first)
decode_access_token(token, t) ==
    IF token = None THEN HTTPException(401, "Not authenticated")
    ELSE LET payload == jwt_decode(token, SECRET_KEY, t) IN
    IF payload = JWTError
    THEN HTTPException(401, "Could not validate credentials")
    ELSE IF ~("scope" \in DOMAIN payload) THEN Unhandled("KeyError: 'scope'")
    ELSE IF payload.scope = "access_token"
    THEN IF "sub" \in DOMAIN payload THEN Return(payload.sub)
         ELSE Unhandled("KeyError: 'sub'")
    ELSE HTTPException(401, "Could not validate credentials")

---------------------------------------------------------------------------
(* Tokens a client can present *)

\* not a JWT at all
Garbage == [fmt |-> "garbage", claims |-> None, key |-> "-"]

\* well-formed tokens signed with a key that is not the service's
\* a well-formed access token signed with a key that is not the service's
Forged == [fmt |-> "jwt", key |-> "other key",
           claims |-> [sub |-> "a@x.com", iat |-> 0, exp |-> ACCESS_TTL,
                       scope |-> "access_token"]]

Presentable == issued \cup {Garbage, Forged}

---------------------------------------------------------------------------
(* The users table *)

\* column defaults of the User model
DefaultConfirmed == FALSE
DefaultRole == "user"

gravatar(email) == [gravatar |-> email]

get_user_by_email(email, db) == IF email \in DOMAIN db THEN db[email] ELSE None

NewUser(body, avatar) ==
    [email |-> body.email, password |-> body.password,
     confirmed |-> DefaultConfirmed, refresh_token |-> None,
     avatar |-> avatar, role |-> DefaultRole]

create_user(body, db) ==
    [db EXCEPT ![body.email] = NewUser(body, gravatar(body.email))]

\* a faulty update_token: a token already persisted is kept
update_token_keep(user, token, db) ==
    IF db[user.email].refresh_token = None
    THEN [db EXCEPT ![user.email].refresh_token = token]
    ELSE db

update_token(user, token, db) ==
    [db EXCEPT ![user.email].refresh_token = token]

\* a faulty confirmed_email: the flag is never written
confirmed_email_lost(email, db) == db

repository_confirmed_email(email, db) ==
    [db EXCEPT ![email].confirmed = TRUE]

update_avatar_url(email, url, db) == [db EXCEPT ![email].avatar = url]

---------------------------------------------------------------------------
(* Responses *)

\* what a client sees of a request: the route, the credential it sent, the
\* status and detail of the answer, its body, and the time of the answer
Answer(op, status, detail, token, email, result) ==
    [op |-> op, status |-> status, detail |-> detail, token |-> token,
     email |-> email, result |-> result, at |-> now]

Response(op, res, token, email) ==
    Answer(op, res.status, res.detail, token, email, None)

Success(op, status, token, email, result) ==
    Answer(op, status, "", token, email, result)

\* the mail a background task sends carries a fresh confirmation token
send_email(email, t) == {create_email_token([sub |-> email], t)}

\* the access tokens handed out so far, one per pair
Pairs == {t \in issued : "scope" \in DOMAIN t.claims /\ t.claims.scope = "access_token"}

Room == Cardinality(Pairs) < MaxPairs

---------------------------------------------------------------------------
(* POST /auth/signup *)

signup(email, password) ==
    /\ LET exist_user == get_user_by_email(email, users) IN
       IF exist_user # None
       THEN \* the 409 raised inside the try block is caught by the handler's
            \* own except clause and answered as 400
            /\ last' = Response("signup", HTTPException(400, "409: ACCOUNT_EXIST"),
                                None, email)
            /\ UNCHANGED <<users, issued>>
       ELSE LET body == [email |-> email,
                         password |-> get_password_hash(password)] IN
            /\ users' = create_user(body, users)
            /\ issued' = issued \cup send_email(email, now)
            /\ last' = Success("signup", 201, None, email, users'[email])
    /\ UNCHANGED <<cache, now, ticks, reqs, answered, contacts>>

(* GET /auth/confirmed_email/{token} *)

confirmed_email(token) ==
    /\ LET res == get_email_from_token(token, now) IN
       IF ~res.ok
       THEN /\ last' = Response("confirmed_email", res, token, None)
            /\ UNCHANGED users
       ELSE LET email == res.value
                user == get_user_by_email(email, users) IN
            IF user = None
            THEN /\ last' = Response("confirmed_email",
                                     HTTPException(400, "USER_NOT_FOUND"),
                                     token, email)
                 /\ UNCHANGED users
            ELSE IF user.confirmed
            THEN /\ last' = Success("confirmed_email", 200, token, email,
                             [message |-> "Verification has already been passed"])
                 /\ UNCHANGED users
            ELSE /\ users' = repository_confirmed_email(email, users)
                 /\ last' = Success("confirmed_email", 200, token, email,
                                    [message |-> "Verification successful"])
    /\ UNCHANGED <<cache, now, ticks, issued, reqs, answered, contacts>>

(* POST /auth/login *)

\* a faulty login: the confirmation flag is not looked at
login_unconfirmed(email, password) ==
    /\ LET user == get_user_by_email(email, users) IN
       IF user = None
       THEN /\ last' = Response("login", HTTPException(401, "EMAIL_NOT_FOUND"),
                                [password |-> password], email)
            /\ UNCHANGED <<users, issued>>
       ELSE IF ~verify_password(password, user.password)
       THEN /\ last' = Response("login", HTTPException(401, "INCORRECT_PASSWORD"),
                                [password |-> password], email)
            /\ UNCHANGED <<users, issued>>
       ELSE LET access_token == create_access_token([sub |-> user.email], now)
                refresh_token == create_refresh_token([sub |-> user.email], now) IN
            /\ Room
            /\ users' = [users EXCEPT ![user.email].refresh_token = refresh_token]
            /\ issued' = issued \cup {access_token, refresh_token}
            /\ last' = Success("login", 200, [password |-> password], email,
                               [access_token |-> access_token,
                                refresh_token |-> refresh_token])
    /\ UNCHANGED <<cache, now, ticks, reqs, answered, contacts>>

login(email, password) ==
    /\ LET user == get_user_by_email(email, users) IN
       IF user = None
       THEN /\ last' = Response("login", HTTPException(401, "EMAIL_NOT_FOUND"),
                                [password |-> password], email)
            /\ UNCHANGED <<users, issued>>
       ELSE IF ~user.confirmed
       THEN /\ last' = Response("login", HTTPException(401, "EMAIL_NOT_CONFIRMED"),
                                [password |-> password], email)
            /\ UNCHANGED <<users, issued>>
       ELSE IF ~verify_password(password, user.password)
       THEN /\ last' = Response("login", HTTPException(401, "INCORRECT_PASSWORD"),
                                [password |-> password], email)
            /\ UNCHANGED <<users, issued>>
       ELSE LET access_token == create_access_token([sub |-> user.email], now)
                refresh_token == create_refresh_token([sub |-> user.email], now) IN
            /\ Room
            /\ users' = update_token(user, refresh_token, users)
            /\ issued' = issued \cup {access_token, refresh_token}
            /\ last' = Success("login", 200, [password |-> password], email,
                               [access_token |-> access_token,
                                refresh_token |-> refresh_token])
    /\ UNCHANGED <<cache, now, ticks, reqs, answered, contacts>>

---------------------------------------------------------------------------
(* The Redis cache *)

pickle_dumps(user) == [pickle |-> user]
pickle_loads(bytes) == bytes.pickle

\* a faulty cache.get: nothing is ever found
cache_get_miss(c, key, t) == None

\* GET: a key past its expiry is gone
cache_get(c, key, t) ==
    IF c[key] = None THEN None
    ELSE IF c[key].volatile /\ t >= c[key].expireAt THEN None
    ELSE c[key].value

\* a faulty cache.set: every caller is cached under one key
cache_set_fixed_key(c, key, value, t) ==
    [c EXCEPT !["a@x.com"] = [value |-> value, volatile |-> FALSE,
                              expireAt |-> 0, setAt |-> t]]

\* SET: stores the value and drops any expiry the key had
cache_set(c, key, value, t) ==
    [c EXCEPT ![key] = [value |-> value, volatile |-> FALSE, expireAt |-> 0,
                        setAt |-> t]]

\* EXPIRE: gives an existing key a time to live
cache_expire(c, key, seconds, t) ==
    IF cache_get(c, key, t) = None THEN c
    ELSE [c EXCEPT ![key].volatile = TRUE, ![key].expireAt = t + seconds]

\* keys past their expiry are removed by the cache itself
cache_purge(c, t) ==
    [k \in DOMAIN c |-> IF cache_get(c, k, t) = None THEN None ELSE c[k]]

\* seconds since the entry under key was written
cache_age(c, key, t) == t - c[key].setAt

build_url(public_id, version) == [cloudinary |-> public_id, version |-> version]

---------------------------------------------------------------------------
(* Requests in flight *)

Idle(r) == reqs[r] = None

Suspend(r, op, pc, token, email, user) ==
    reqs' = [reqs EXCEPT ![r] = [op |-> op, pc |-> pc, token |-> token,
                                 email |-> email, user |-> user]]

Finish(r) == reqs' = [reqs EXCEPT ![r] = None]

\* a token of the service that carries the refresh scope and has not expired
IsRefreshToken(token, t) ==
    LET payload == jwt_decode(token, SECRET_KEY, t) IN
    IF payload = JWTError THEN FALSE
    ELSE "scope" \in DOMAIN payload /\ payload.scope = "refresh_token"

\* a token of the service that carries the access scope and has not expired
IsAccessToken(token, t) ==
    IF token = None THEN FALSE
    ELSE LET payload == jwt_decode(token, SECRET_KEY, t) IN
         IF payload = JWTError THEN FALSE
         ELSE "scope" \in DOMAIN payload /\ payload.scope = "access_token"

\* the history of answers to refresh requests that presented a refresh token
Note(r, token, answer) ==
    answered' = IF IsRefreshToken(token, now)
                THEN answered \cup {[req |-> r, token |-> token,
                                     status |-> answer.status,
                                     detail |-> answer.detail]}
                ELSE answered

\* the comparison with the persisted token and the commit of update_token
refresh_compare(r) ==
    LET q == reqs[r] IN
    /\ Finish(r)
    /\ UNCHANGED cache
    /\ Note(r, q.token, last')
    /\ IF q.user = None
       THEN /\ last' = Response("refresh_token", Unhandled("AttributeError"),
                                q.token, q.email)
            /\ UNCHANGED <<users, issued>>
       ELSE IF q.user.refresh_token # q.token
       THEN /\ users' = update_token(q.user, None, users)
            /\ last' = Response("refresh_token",
                                HTTPException(401, "INVALID_REFRESH_TOKEN"),
                                q.token, q.email)
            /\ UNCHANGED issued
       ELSE LET access_token == create_access_token([sub |-> q.email], now)
                new_refresh_token == create_refresh_token([sub |-> q.email], now) IN
            /\ Room
            /\ users' = update_token(q.user, new_refresh_token, users)
            /\ issued' = issued \cup {access_token, new_refresh_token}
            /\ last' = Success("refresh_token", 200, q.token, q.email,
                               [access_token |-> access_token,
                                refresh_token |-> new_refresh_token])

(* GET /auth/refresh_token: the verification of the token and the read of
   the user row; after that await the request resumes with the comparison
   and the write *)

refresh_token(r, token) ==
    IF Idle(r)
    THEN /\ LET res == decode_refresh_token(token, now) IN
            IF ~res.ok
            THEN /\ last' = Response("refresh_token", res, token, None)
                 /\ Note(r, token, last')
                 /\ UNCHANGED reqs
            ELSE LET email == res.value
                     user == get_user_by_email(email, users) IN
                 /\ Suspend(r, "refresh_token", "compare", token, email, user)
                 /\ UNCHANGED <<last, answered>>
         /\ UNCHANGED <<users, cache, now, ticks, issued, contacts>>
    ELSE /\ reqs[r].pc = "compare"
         /\ reqs[r].token = token
         /\ refresh_compare(r)
         /\ UNCHANGED <<now, ticks, contacts>>

---------------------------------------------------------------------------
(* Auth.get_current_user, the authentication gate, as the dependency of
   GET /users/me and PATCH /users/avatar *)

\* what the route does once the gate has resolved the caller
gate_resolved(r, op, token, user, source, age) ==
    IF op = "me"
    THEN /\ last' = Success("me", 200, token, user.email,
                            [user |-> user, source |-> source, age |-> age])
         /\ Finish(r)
    ELSE /\ Suspend(r, op, "handler", token, user.email, user)
         /\ UNCHANGED last

\* (a cache failure in this first step answers 500 and changes nothing;
\* failures are modelled where a request has already written something)
get_current_user(r, op, token) ==
    /\ Idle(r)
    /\ UNCHANGED <<users, now, ticks, issued, answered, contacts>>
    /\ LET res == decode_access_token(token, now) IN
       IF ~res.ok
       THEN /\ last' = Response(op, res, token, None)
            /\ UNCHANGED <<reqs, cache>>
       ELSE LET email == res.value
                cached == cache_get(cache, email, now) IN
            IF cached # None
            THEN /\ gate_resolved(r, op, token, pickle_loads(cached), "cache",
                                  cache_age(cache, email, now))
                 /\ UNCHANGED cache
            ELSE LET user == get_user_by_email(email, users) IN
                 IF user = None
                 THEN /\ last' = Response(op,
                              HTTPException(401, "Could not validate credentials"),
                              token, email)
                      /\ UNCHANGED <<reqs, cache>>
                 ELSE /\ cache' = cache_set(cache, email, pickle_dumps(user), now)
                      /\ Suspend(r, op, "gate_expire", token, email, user)
                      /\ UNCHANGED last

\* cache.expire(user_hash, 300) and the return of the gate
gate_expire(r, redis_up) ==
    LET q == reqs[r] IN
    /\ UNCHANGED <<users, issued>>
    /\ IF ~redis_up
       THEN /\ last' = Response(q.op, Unhandled("redis ConnectionError"),
                                q.token, q.email)
            /\ Finish(r)
            /\ UNCHANGED cache
       ELSE /\ cache' = cache_expire(cache, q.email, CACHE_TTL, now)
            /\ gate_resolved(r, q.op, q.token, q.user, "store", 0)

\* PATCH /users/avatar after the gate: the row is updated and cached
avatar_handler(r, version, redis_up) ==
    LET q == reqs[r]
        res_url == build_url(q.user.email, version)
        db == update_avatar_url(q.user.email, res_url, users)
        user == get_user_by_email(q.user.email, db) IN
    /\ users' = db
    /\ UNCHANGED issued
    /\ IF ~redis_up
       THEN /\ last' = Response(q.op, Unhandled("redis ConnectionError"),
                                q.token, q.email)
            /\ Finish(r)
            /\ UNCHANGED cache
       ELSE /\ cache' = cache_set(cache, user.email, pickle_dumps(user), now)
            /\ Suspend(r, q.op, "avatar_expire", q.token, q.email, user)
            /\ UNCHANGED last

avatar_expire(r, redis_up) ==
    LET q == reqs[r] IN
    /\ UNCHANGED <<users, issued>>
    /\ IF ~redis_up
       THEN /\ last' = Response(q.op, Unhandled("redis ConnectionError"),
                                q.token, q.email)
            /\ Finish(r)
            /\ UNCHANGED cache
       ELSE /\ cache' = cache_expire(cache, q.user.email, CACHE_TTL, now)
            /\ last' = Success(q.op, 200, q.token, q.email,
                               [user |-> q.user, source |-> "store", age |-> 0])
            /\ Finish(r)

\* a suspended request runs its next step
Resume(r) ==
    /\ ~Idle(r)
    /\ reqs[r].op \in {"me", "avatar"}
    /\ UNCHANGED <<now, ticks, answered, contacts>>
    /\ \E version \in Versions, redis_up \in BOOLEAN :
         CASE reqs[r].pc = "gate_expire" -> gate_expire(r, redis_up)
           [] reqs[r].pc = "handler" -> avatar_handler(r, version, redis_up)
           [] reqs[r].pc = "avatar_expire" -> avatar_expire(r, redis_up)

---------------------------------------------------------------------------
(* The clock *)

\* The clock moves in steps of minutes; the two consecutive cache calls of
\* a request (set, then expire, with no await between them) take no such time.
Tick ==
    /\ ticks < MaxTicks
    /\ \A r \in ReqIds :
         IF Idle(r) THEN TRUE ELSE reqs[r].pc \notin {"gate_expire", "avatar_expire"}
    /\ \E d \in Deltas : now' = now + d
    /\ ticks' = ticks + 1
    /\ cache' = cache_purge(cache, now')
    /\ UNCHANGED <<users, issued, reqs, last, answered, contacts>>

---------------------------------------------------------------------------

Init ==
    /\ users = [e \in Emails |-> None]
    /\ cache = [e \in Emails |-> None]
    /\ now = 0
    /\ ticks = 0
    /\ issued = {}
    /\ reqs = [r \in ReqIds |-> None]
    /\ answered = {}
    /\ contacts = <<>>
    /\ last = [op |-> "start", status |-> 0, detail |-> "", token |-> None,
               email |-> None, result |-> None, at |-> 0]

Next ==
    \/ \E e \in Emails, p \in Passwords : signup(e, p)
    \/ \E t \in Presentable : confirmed_email(t)
    \/ \E e \in Emails, p \in Guesses : login(e, p)
    \/ Tick

Spec == Init /\ [][Next]_vars

---------------------------------------------------------------------------
(* The state in which both users have signed up and confirmed their address:
   the starting point of the behaviours of token refresh and of the
   protected routes *)

Confirmed(db, e) == repository_confirmed_email(e, create_user(
                      [email |-> e, password |-> get_password_hash("secret1")], db))

ConfirmedInit ==
    /\ users = Confirmed(Confirmed([e \in Emails |-> None], "a@x.com"), "b@x.com")
    /\ cache = [e \in Emails |-> None]
    /\ now = 0
    /\ ticks = 0
    /\ issued = send_email("a@x.com", 0) \cup send_email("b@x.com", 0)
    /\ reqs = [r \in ReqIds |-> None]
    /\ answered = {}
    /\ contacts = <<>>
    /\ last = [op |-> "confirmed_email", status |-> 200, detail |-> "",
               token |-> create_email_token([sub |-> "b@x.com"], 0),
               email |-> "b@x.com",
               result |-> [message |-> "Verification successful"], at |-> 0]

(* Login and token refresh *)

RefreshNext ==
    \/ \E e \in Emails, p \in Guesses : login(e, p)
    \/ \E r \in ReqIds, t \in Presentable : refresh_token(r, t)
    \/ Tick

SpecRefresh == ConfirmedInit /\ [][RefreshNext]_vars

(* The protected routes *)

GateNext ==
    \/ \E e \in Emails, p \in Passwords :
         Cardinality(Pairs) < MaxGatePairs /\ login(e, p)
    \/ \E r \in GateReqs, op \in {"me", "avatar"},
          t \in Presentable \cup {None} : get_current_user(r, op, t)
    \/ \E r \in GateReqs : Resume(r)
    \/ Tick

SpecGate == ConfirmedInit /\ [][GateNext]_vars

---------------------------------------------------------------------------
(* The role gate *)

\* the Role enumeration of the User model
Roles == {"admin", "moderator", DefaultRole}

\* a faulty role gate: the allow-set of the route is ignored
RoleAccess_admin_only(allowed_roles, user) ==
    IF user.role # "admin"
    THEN HTTPException(403, "FORBIDDEN")
    ELSE Return(None)

\* RoleAccess(allowed_roles).__call__(request, user): returns nothing when
\* the role is allowed
RoleAccess(allowed_roles, user) ==
    IF user.role \notin allowed_roles
    THEN HTTPException(403, "FORBIDDEN")
    ELSE Return(None)

\* a faulty allow-set: every role may list all contacts
access_to_route_any == Roles

\* the allow-set of GET /contacts/all
access_to_route_all == {"admin", "moderator"}

\* a role written to the users table by an administrator of the database
set_role(email, role, db) == [db EXCEPT ![email].role = role]

\* a request whose identity has been resolved and that is about to pass a
\* role gate built with allowed_roles
RoleCall(user, allowed_roles) ==
    [op |-> "RoleAccess", pc |-> "call", token |-> None, email |-> user.email,
     user |-> user, allowed_roles |-> allowed_roles]

\* the dependency runs: the request goes on to its route, or is answered 403
role_access(r) ==
    /\ ~Idle(r)
    /\ reqs[r].op = "RoleAccess"
    /\ reqs[r].pc = "call"
    /\ LET q == reqs[r]
           res == RoleAccess(q.allowed_roles, q.user) IN
       IF res.ok
       THEN /\ reqs' = [reqs EXCEPT ![r].pc = "permitted"]
            /\ UNCHANGED last
       ELSE /\ last' = Response("RoleAccess", res, None, q.email)
            /\ Finish(r)
    /\ UNCHANGED <<users, cache, now, ticks, issued, answered, contacts>>

\* every role of every user, every allow-set
RoleAccessInit ==
    /\ \E ra, rb \in Roles :
         users = set_role("b@x.com", rb, set_role("a@x.com", ra,
                   Confirmed(Confirmed([e \in Emails |-> None], "a@x.com"),
                             "b@x.com")))
    /\ \E e \in Emails, allowed_roles \in SUBSET Roles :
         reqs = [r \in ReqIds |->
                   IF r \in GateReqs THEN RoleCall(users[e], allowed_roles)
                   ELSE None]
    /\ cache = [e \in Emails |-> None]
    /\ now = 0
    /\ ticks = 0
    /\ issued = {}
    /\ answered = {}
    /\ contacts = <<>>
    /\ last = [op |-> "start", status |-> 0, detail |-> "", token |-> None,
               email |-> None, result |-> None, at |-> 0]

RoleAccessNext == \E r \in GateReqs : role_access(r)

SpecRoleAccess == RoleAccessInit /\ [][RoleAccessNext]_vars

---------------------------------------------------------------------------
(* The contacts table and its repository *)

\* the ids the table's sequence hands out in one behaviour
ContactIds == {1, 2}

\* Request bodies. The searched columns are sequences of characters, so that
\* ILIKE can look into them; every field is set, as in the requests of the
\* tests, so model_dump(exclude_unset=True) drops nothing.
John == [name |-> <<"J", "o", "n">>, lastname |-> <<"D", "o", "e">>,
         email |-> <<"j", "@", "x">>, phone |-> "1234567",
         birthdate |-> "01.01.1990", others_info |-> "Some additional info",
         completed |-> TRUE]

Niko == [name |-> <<"N", "I", "K">>, lastname |-> <<"A", "R", "M">>,
         email |-> <<"n", "@", "x">>, phone |-> "123456789",
         birthdate |-> "01.01.1990", others_info |-> "is None",
         completed |-> FALSE]

\* ContactSchema bodies and ContactUpdateSchema bodies
Bodies == {John, Niko}

\* ?query= : absent or empty (both falsy), or a search text
NoQuery == <<>>
Queries == {NoQuery, <<"d", "O">>}
\* ?limit= (at least 10) and ?offset=
Limits == {10}
Offsets == {0, 1}

lower(ch) ==
    CASE ch = "J" -> "j" [] ch = "D" -> "d" [] ch = "N" -> "n"
      [] ch = "I" -> "i" [] ch = "K" -> "k" [] ch = "A" -> "a"
      [] ch = "R" -> "r" [] ch = "M" -> "m" [] ch = "O" -> "o"
      [] OTHER -> ch

\* column ILIKE '%query%': the text contains the query, case ignored
ilike(text, query) ==
    \E i \in 0..(Len(text) - Len(query)) :
        \A j \in 1..Len(query) : lower(text[i + j]) = lower(query[j])

\* .offset(offset).limit(limit)
offset_limit(rows, offset, limit) ==
    SubSeq(rows, offset + 1,
           IF offset + limit < Len(rows) THEN offset + limit ELSE Len(rows))

query_filter(rows, query) ==
    IF query # NoQuery
    THEN SelectSeq(rows, LAMBDA c : \/ ilike(c.name, query)
                                    \/ ilike(c.lastname, query)
                                    \/ ilike(c.email, query))
    ELSE rows

\* filter_by(user=user)
owned_by(db, user) ==
    SelectSeq(db, LAMBDA c : IF c = None THEN FALSE ELSE c.user = user.email)

\* a faulty get_contacts: the page is cut before the search is applied
get_contacts_page_first(limit, offset, query, db, user) ==
    query_filter(offset_limit(owned_by(db, user), offset, limit), query)

repository_get_contacts(limit, offset, query, db, user) ==
    offset_limit(query_filter(owned_by(db, user), query), offset, limit)

repository_get_all_contacts(limit, offset, query, db) ==
    offset_limit(query_filter(SelectSeq(db, LAMBDA c : c # None), query),
                 offset, limit)

\* a faulty get_contact: the row is looked up by id alone
get_contact_any_owner(contact_id, db, user) ==
    IF contact_id \notin DOMAIN db THEN None
    ELSE db[contact_id]

\* filter_by(id=contact_id, user=user) ... first()
repository_get_contact(contact_id, db, user) ==
    IF contact_id \notin DOMAIN db THEN None
    ELSE IF db[contact_id] = None THEN None
    ELSE IF db[contact_id].user # user.email THEN None
    ELSE db[contact_id]

\* a faulty create_contact: the new row replaces the newest one
create_contact_overwrite(body, db, user) ==
    IF db = <<>> THEN <<[id |-> 1, user |-> user.email] @@ body>>
    ELSE [db EXCEPT ![Len(db)] = [id |-> Len(db), user |-> user.email] @@ body]

\* Contact(**body.model_dump(exclude_unset=True), user=user) with the id the
\* database assigns at the commit
repository_create_contact(body, db, user) ==
    Append(db, [id |-> Len(db) + 1, user |-> user.email] @@ body)

\* a faulty update_contact: the row is looked up by id alone
update_contact_any_owner(contact_id, body, db, user) ==
    LET contact == get_contact_any_owner(contact_id, db, user) IN
    IF contact # None
    THEN [db EXCEPT ![contact_id] =
            [contact EXCEPT !.name = body.name, !.lastname = body.lastname,
                            !.email = body.email, !.phone = body.phone,
                            !.birthdate = body.birthdate,
                            !.others_info = body.others_info,
                            !.completed = body.completed]]
    ELSE db

\* a faulty update_contact: the phone number of the body is dropped
update_contact_keep_phone(contact_id, body, db, user) ==
    LET contact == repository_get_contact(contact_id, db, user) IN
    IF contact # None
    THEN [db EXCEPT ![contact_id] =
            [contact EXCEPT !.name = body.name, !.lastname = body.lastname,
                            !.email = body.email,
                            !.birthdate = body.birthdate,
                            !.others_info = body.others_info,
                            !.completed = body.completed]]
    ELSE db

\* the table after update_contact; the row it returns is the one under
\* contact_id, or None when the caller owns no such row
repository_update_contact(contact_id, body, db, user) ==
    LET contact == repository_get_contact(contact_id, db, user) IN
    IF contact # None
    THEN [db EXCEPT ![contact_id] =
            [contact EXCEPT !.name = body.name, !.lastname = body.lastname,
                            !.email = body.email, !.phone = body.phone,
                            !.birthdate = body.birthdate,
                            !.others_info = body.others_info,
                            !.completed = body.completed]]
    ELSE db

\* the table after delete_contact
repository_delete_contact(contact_id, db, user) ==
    LET contact == repository_get_contact(contact_id, db, user) IN
    IF contact # None THEN [db EXCEPT ![contact_id] = None] ELSE db

---------------------------------------------------------------------------
(* The routes of /contacts. Each runs the authentication gate first; the
   cache is up, so that the gate's set and expire happen together. Every
   repository call is one transaction. *)

\* Auth.get_current_user run to its end: the caller it resolves (or the
\* error it raises) and the cache it leaves behind
current_user(token, c, db, t) ==
    LET res == decode_access_token(token, t) IN
    IF ~res.ok THEN [res |-> res, cache |-> c]
    ELSE LET email == res.value
             cached == cache_get(c, email, t) IN
         IF cached # None
         THEN [res |-> Return(pickle_loads(cached)), cache |-> c]
         ELSE LET user == get_user_by_email(email, db) IN
              IF user = None
              THEN [res |-> HTTPException(401, "Could not validate credentials"),
                    cache |-> c]
              ELSE [res |-> Return(user),
                    cache |-> cache_expire(
                                cache_set(c, email, pickle_dumps(user), t),
                                email, CACHE_TTL, t)]

NotFound == HTTPException(404, "Contact not found")

\* the answer of a contacts route: what was asked (args) and what came
\* back, and for the record the role of the identity the gate resolved and
\* the role the users table held for that caller at that time
ContactAnswer(op, status, detail, token, user, args, value) ==
    Answer(op, status, detail, token, user.email,
           [args |-> args, value |-> value, role |-> user.role,
            stored |-> get_user_by_email(user.email, users).role])

(* GET /contacts/ *)
get_contacts(token, limit, offset, query) ==
    LET g == current_user(token, cache, users, now) IN
    /\ cache' = g.cache
    /\ IF ~g.res.ok
       THEN last' = Response("get_contacts", g.res, token, None)
       ELSE LET user == g.res.value IN
            last' = ContactAnswer("get_contacts", 200, "", token, user,
                      [limit |-> limit, offset |-> offset, query |-> query],
                      repository_get_contacts(limit, offset, query, contacts,
                                              user))
    /\ UNCHANGED <<users, now, ticks, issued, reqs, answered, contacts>>

(* GET /contacts/all, behind the role gate *)
get_all_contacts(token, limit, offset, query) ==
    LET g == current_user(token, cache, users, now) IN
    /\ cache' = g.cache
    /\ IF ~g.res.ok
       THEN last' = Response("get_all_contacts", g.res, token, None)
       ELSE LET user == g.res.value
                access == RoleAccess(access_to_route_all, user) IN
            IF ~access.ok
            THEN last' = ContactAnswer("get_all_contacts", access.status,
                           access.detail, token, user,
                           [limit |-> limit, offset |-> offset,
                            query |-> query], None)
            ELSE last' = ContactAnswer("get_all_contacts", 200, "", token,
                           user, [limit |-> limit, offset |-> offset,
                                  query |-> query],
                           repository_get_all_contacts(limit, offset, query,
                                                       contacts))
    /\ UNCHANGED <<users, now, ticks, issued, reqs, answered, contacts>>

(* GET /contacts/{contact_id} *)
get_contact(token, contact_id) ==
    LET g == current_user(token, cache, users, now) IN
    /\ cache' = g.cache
    /\ IF ~g.res.ok
       THEN last' = Response("get_contact", g.res, token, None)
       ELSE LET user == g.res.value
                contact == repository_get_contact(contact_id, contacts, user)
            IN
            IF contact = None
            THEN last' = ContactAnswer("get_contact", NotFound.status,
                           NotFound.detail, token, user,
                           [contact_id |-> contact_id], None)
            ELSE last' = ContactAnswer("get_contact", 200, "", token, user,
                           [contact_id |-> contact_id], contact)
    /\ UNCHANGED <<users, now, ticks, issued, reqs, answered, contacts>>

(* POST /contacts/ *)
create_contact(token, body) ==
    LET g == current_user(token, cache, users, now) IN
    /\ cache' = g.cache
    /\ IF ~g.res.ok
       THEN /\ last' = Response("create_contact", g.res, token, None)
            /\ UNCHANGED contacts
       ELSE LET user == g.res.value
                db == repository_create_contact(body, contacts, user) IN
            /\ Len(db) \in ContactIds
            /\ contacts' = db
            /\ last' = ContactAnswer("create_contact", 201, "", token, user,
                                     [body |-> body], db[Len(db)])
    /\ UNCHANGED <<users, now, ticks, issued, reqs, answered>>

(* PUT /contacts/{contact_id} *)
update_contact(token, contact_id, body) ==
    LET g == current_user(token, cache, users, now) IN
    /\ cache' = g.cache
    /\ IF ~g.res.ok
       THEN /\ last' = Response("update_contact", g.res, token, None)
            /\ UNCHANGED contacts
       ELSE LET user == g.res.value
                db == repository_update_contact(contact_id, body, contacts,
                                                user)
                contact == repository_get_contact(contact_id, db, user) IN
            /\ contacts' = db
            /\ IF contact = None
               THEN last' = ContactAnswer("update_contact", NotFound.status,
                              NotFound.detail, token, user,
                              [contact_id |-> contact_id, body |-> body],
                              None)
               ELSE last' = ContactAnswer("update_contact", 200, "", token,
                              user,
                              [contact_id |-> contact_id, body |-> body],
                              contact)
    /\ UNCHANGED <<users, now, ticks, issued, reqs, answered>>

(* DELETE /contacts/{contact_id}: the gate and the route's own get_contact;
   the request then waits for the repository's delete_contact *)
delete_contact(r, token, contact_id) ==
    LET g == current_user(token, cache, users, now) IN
    /\ Idle(r)
    /\ cache' = g.cache
    /\ IF ~g.res.ok
       THEN /\ last' = Response("delete_contact", g.res, token, None)
            /\ UNCHANGED reqs
       ELSE LET user == g.res.value
                contact == repository_get_contact(contact_id, contacts, user)
            IN
            IF contact = None
            THEN /\ last' = ContactAnswer("delete_contact", NotFound.status,
                              NotFound.detail, token, user,
                              [contact_id |-> contact_id, req |-> r], None)
                 /\ UNCHANGED reqs
            ELSE /\ reqs' = [reqs EXCEPT ![r] =
                               [op |-> "delete_contact", pc |-> "delete",
                                token |-> token, email |-> user.email,
                                user |-> user, contact_id |-> contact_id]]
                 /\ UNCHANGED last
    /\ UNCHANGED <<users, now, ticks, issued, answered, contacts>>

\* repository delete_contact and the 204 of the route, whatever it returned
delete_contact_commit(r) ==
    /\ ~Idle(r)
    /\ reqs[r].op = "delete_contact"
    /\ reqs[r].pc = "delete"
    /\ LET q == reqs[r] IN
       /\ contacts' = repository_delete_contact(q.contact_id, contacts, q.user)
       /\ last' = ContactAnswer("delete_contact", 204, "", q.token, q.user,
                    [contact_id |-> q.contact_id, req |-> r],
                    repository_get_contact(q.contact_id, contacts, q.user))
    /\ Finish(r)
    /\ UNCHANGED <<users, cache, now, ticks, issued, answered>>

---------------------------------------------------------------------------
(* The state in which both confirmed users have logged in; a@x.com has been
   made an administrator in the users table *)

LoggedIn(db, e) == update_token(db[e], create_refresh_token([sub |-> e], 0), db)

ContactsInit ==
    /\ users = set_role("a@x.com", "admin",
                 LoggedIn(LoggedIn(
                   Confirmed(Confirmed([e \in Emails |-> None], "a@x.com"),
                             "b@x.com"), "a@x.com"), "b@x.com"))
    /\ cache = [e \in Emails |-> None]
    /\ now = 0
    /\ ticks = 0
    /\ issued = UNION {send_email(e, 0) \cup
                       {create_access_token([sub |-> e], 0),
                        create_refresh_token([sub |-> e], 0)} : e \in Emails}
    /\ reqs = [r \in ReqIds |-> None]
    /\ answered = {}
    /\ contacts = <<>>
    /\ last = Success("login", 200, [password |-> "secret1"], "b@x.com",
                      [access_token |-> create_access_token([sub |-> "b@x.com"], 0),
                       refresh_token |-> create_refresh_token([sub |-> "b@x.com"], 0)])

\* what the callers of the contacts routes present: the access tokens of
\* the users, or something that is no token
Bearers == Pairs \cup {Garbage}

ContactsNext ==
    \/ \E t \in Pairs, limit \in Limits, offset \in Offsets, q \in Queries :
         get_contacts(t, limit, offset, q)
    \/ \E t \in Pairs, limit \in Limits, offset \in Offsets, q \in Queries :
         get_all_contacts(t, limit, offset, q)
    \/ \E t \in Bearers, id \in ContactIds : get_contact(t, id)
    \/ \E t \in Pairs, body \in Bodies : create_contact(t, body)
    \/ \E t \in Pairs, id \in ContactIds, body \in Bodies :
         update_contact(t, id, body)
    \/ \E r \in ReqIds, t \in Pairs, id \in ContactIds :
         delete_contact(r, t, id)
    \/ \E r \in ReqIds : delete_contact_commit(r)

SpecContacts == ContactsInit /\ [][ContactsNext]_vars

(* The role of a caller changes while the caller uses the privileged listing *)

\* an administrator of the database writes a role into a user's row
change_role(email, role) ==
    /\ users[email].role # role
    /\ users' = set_role(email, role, users)
    /\ UNCHANGED <<cache, now, ticks, issued, reqs, last, answered, contacts>>

\* b@x.com has created a contact
RolesInit ==
    LET token == create_access_token([sub |-> "b@x.com"], 0)
        db == set_role("a@x.com", "admin",
                LoggedIn(LoggedIn(
                  Confirmed(Confirmed([e \in Emails |-> None], "a@x.com"),
                            "b@x.com"), "a@x.com"), "b@x.com"))
        g == current_user(token, [e \in Emails |-> None], db, 0)
        table == repository_create_contact(John, <<>>, g.res.value) IN
    /\ users = db
    /\ cache = g.cache
    /\ now = 0
    /\ ticks = 0
    /\ issued = UNION {send_email(e, 0) \cup
                       {create_access_token([sub |-> e], 0),
                        create_refresh_token([sub |-> e], 0)} : e \in Emails}
    /\ reqs = [r \in ReqIds |-> None]
    /\ answered = {}
    /\ contacts = table
    /\ last = ContactAnswer("create_contact", 201, "", token, g.res.value,
                            [body |-> John], table[1])

RolesNext ==
    \/ \E e \in Emails, role \in Roles : change_role(e, role)
    \/ \E t \in Bearers, limit \in Limits :
         get_all_contacts(t, limit, 0, NoQuery)
    \/ Tick

SpecRoles == RolesInit /\ [][RolesNext]_vars

---------------------------------------------------------------------------
(* The two listings over tables of every size up to MaxRows *)

\* rows in the largest table
MaxRows == 12

\* Query(default=...): the value sent, or the default when none is sent
DefaultLimit == 10
DefaultOffset == 0
Query(sent, default) == IF sent = {} THEN default ELSE CHOOSE v \in sent : TRUE

\* ?limit= and ?offset= as sent: nothing, or one value the route accepts
LimitParams == {{}, {DefaultLimit}, {DefaultLimit + 1}}
OffsetParams == {{}, {1}, {5}, {MaxRows}}

\* row i of a table: every third row (every row when third = 1) belongs to
\* b@x.com, the others to a@x.com; the bodies alternate; with holes, row 2
\* has been deleted
TableRow(i, third, holes) ==
    IF holes /\ i = 2 THEN None
    ELSE [id |-> i,
          user |-> IF i % third = 0 THEN "b@x.com" ELSE "a@x.com"]
         @@ (IF i % 2 = 0 THEN Niko ELSE John)

Tables ==
    {[i \in 1..n |-> TableRow(i, third, holes)] :
        n \in {0, 1, MaxRows - 1, MaxRows}, third \in {1, 3}, holes \in BOOLEAN}

ListingInit ==
    /\ users = set_role("a@x.com", "admin",
                 LoggedIn(LoggedIn(
                   Confirmed(Confirmed([e \in Emails |-> None], "a@x.com"),
                             "b@x.com"), "a@x.com"), "b@x.com"))
    /\ cache = [e \in Emails |-> None]
    /\ now = 0
    /\ ticks = 0
    /\ issued = UNION {send_email(e, 0) \cup
                       {create_access_token([sub |-> e], 0),
                        create_refresh_token([sub |-> e], 0)} : e \in Emails}
    /\ reqs = [r \in ReqIds |-> None]
    /\ answered = {}
    /\ contacts \in Tables
    /\ last = Success("login", 200, [password |-> "secret1"], "b@x.com",
                      [access_token |-> create_access_token([sub |-> "b@x.com"], 0),
                       refresh_token |-> create_refresh_token([sub |-> "b@x.com"], 0)])

ListingNext ==
    \/ \E t \in Pairs, l \in LimitParams, o \in OffsetParams, q \in Queries :
         get_contacts(t, Query(l, DefaultLimit), Query(o, DefaultOffset), q)
    \/ \E t \in Pairs, l \in LimitParams, o \in OffsetParams, q \in Queries :
         get_all_contacts(t, Query(l, DefaultLimit), Query(o, DefaultOffset), q)

SpecListing == ListingInit /\ [][ListingNext]_vars

---------------------------------------------------------------------------
(* POST /auth/request_email: a confirmation mail is asked for again. The
   answer lists the background tasks the handler has added. *)

request_email(email) ==
    /\ LET user == get_user_by_email(email, users) IN
       IF user = None
       THEN \* user.confirmed is read before the test for a missing row
            /\ last' = Response("request_email",
                                Unhandled("AttributeError: 'NoneType' object has no attribute 'confirmed'"),
                                None, email)
            /\ UNCHANGED issued
       ELSE IF user.confirmed
       THEN /\ last' = Success("request_email", 200, None, email,
                         [message |-> "Your email is already confirmed",
                          tasks |-> <<>>])
            /\ UNCHANGED issued
       ELSE /\ issued' = issued \cup send_email(user.email, now)
            /\ last' = Success("request_email", 200, None, email,
                         [message |-> "Check your email for confirmation.",
                          tasks |-> <<[task |-> "send_email",
                                       email |-> user.email]>>])
    /\ UNCHANGED <<users, cache, now, ticks, reqs, answered, contacts>>

EmailNext ==
    \/ \E e \in Emails, p \in Passwords : signup(e, p)
    \/ \E t \in Presentable : confirmed_email(t)
    \/ \E e \in Emails : request_email(e)
    \/ Tick

SpecEmail == Init /\ [][EmailNext]_vars

---------------------------------------------------------------------------
(* Properties *)

GateOps == {"me", "avatar"}

\* the step that answers a refresh request
RefreshAnswered ==
    last'.op = "refresh_token" /\ (last' # last \/ answered' # answered)

\* the step that answers a login request
LoginAnswered == last'.op = "login" /\ last' # last

InvalidRefreshToken(a) == a.status = 401 /\ a.detail = "INVALID_REFRESH_TOKEN"

\* the refresh tokens the service has issued to a user
RefreshTokensOf(e) ==
    {t \in issued : /\ "scope" \in DOMAIN t.claims
                    /\ t.claims.scope = "refresh_token"
                    /\ t.claims.sub = e}

\* the refresh operation, given this token now, would issue a new pair
WouldAccept(token) ==
    LET res == decode_refresh_token(token, now) IN
    IF ~res.ok THEN FALSE
    ELSE LET user == get_user_by_email(res.value, users) IN
         IF user = None THEN FALSE ELSE user.refresh_token = token

C2_RefreshSucceeds ==
    [][(/\ RefreshAnswered
        /\ IsRefreshToken(last'.token, now)
        /\ users[last'.token.claims.sub].refresh_token = last'.token)
       => (/\ last'.status = 200
           /\ last'.result # None
           /\ IsRefreshToken(last'.result.refresh_token, now)
           /\ IsAccessToken(last'.result.access_token, now)
           /\ users'[last'.token.claims.sub].refresh_token
                = last'.result.refresh_token)]_vars

\* C3: a refresh that presents a refresh-scoped token different from the
\* persisted one is answered 401 InvalidRefreshToken and the persisted token
\* is cleared.
C3_MismatchRevokes ==
    [][(/\ RefreshAnswered
        /\ IsRefreshToken(last'.token, now)
        /\ users[last'.token.claims.sub].refresh_token # last'.token)
       => (/\ InvalidRefreshToken(last')
           /\ users'[last'.token.claims.sub].refresh_token = None)]_vars

\* C4: of two refresh requests (two slots) that present the same token, at
\* most one is answered 200 and the other one observes the mismatch.
C4_ConcurrentRefresh ==
    \A a, b \in answered :
        (a.req # b.req /\ a.token = b.token)
        => (/\ ~(a.status = 200 /\ b.status = 200)
            /\ (InvalidRefreshToken(a) \/ InvalidRefreshToken(b)))

\* C5: for every user the refresh operation would accept at most one token;
\* the persisted token is one the service issued to that user and it is the
\* most recently issued one, so that every login has replaced the earlier
\* tokens.
C5_AtMostOneValid ==
    \A e \in Emails :
        LET user == get_user_by_email(e, users) IN
        /\ Cardinality({t \in issued : t.claims.sub = e /\ WouldAccept(t)}) <= 1
        /\ \A t \in issued : (t.claims.sub = e /\ WouldAccept(t))
                                => t = user.refresh_token
        /\ (user # None /\ user.refresh_token # None)
             => /\ user.refresh_token \in RefreshTokensOf(e)
                /\ \A o \in RefreshTokensOf(e) :
                       o.claims.iat <= user.refresh_token.claims.iat

\* a user has logged in twice, and the later token has replaced the earlier
C5_Witness ==
    \E e \in Emails : \E t0, t1 \in RefreshTokensOf(e) :
        /\ t0.claims.iat < t1.claims.iat
        /\ users[e].refresh_token = t1
        /\ last.op = "login" /\ last.status = 200 /\ last.email = e

\* C6: login issues tokens iff the email exists, the row is confirmed and the
\* password matches; the three failures are told apart in this order, a
\* failed login changes no row and issues nothing; a row created by signup
\* is unconfirmed, and only the confirmation route confirms it.
C6_LoginGate ==
    [][/\ LoginAnswered =>
            LET user == get_user_by_email(last'.email, users)
                good == IF user = None THEN FALSE
                        ELSE user.confirmed
                             /\ verify_password(last'.token.password, user.password)
            IN
            /\ (last'.status = 200) <=> good
            /\ user = None
                 => (last'.status = 401 /\ last'.detail = "EMAIL_NOT_FOUND")
            /\ (IF user = None THEN FALSE ELSE ~user.confirmed)
                 => (last'.status = 401 /\ last'.detail = "EMAIL_NOT_CONFIRMED")
            /\ (IF user = None THEN FALSE ELSE user.confirmed /\ ~good)
                 => (last'.status = 401 /\ last'.detail = "INCORRECT_PASSWORD")
            /\ ~good => (users' = users /\ issued' = issued)
            /\ good => /\ users'[last'.email].refresh_token
                            = last'.result.refresh_token
                       /\ IsRefreshToken(last'.result.refresh_token, now)
                       /\ IsAccessToken(last'.result.access_token, now)
                       /\ last'.result.access_token.claims.sub = last'.email
       /\ (last'.op = "signup" /\ last' # last /\ last'.status = 201)
            => ~users'[last'.email].confirmed
       /\ \A e \in Emails :
            (users[e] # None /\ ~users[e].confirmed /\ users'[e].confirmed)
            => (last'.op = "confirmed_email" /\ last'.status = 200
                /\ last'.email = e)
      ]_vars

\* a user who signed up and confirmed has logged in
C6_Witness ==
    /\ last.op = "login" /\ last.status = 200
    /\ users[last.email].confirmed
    /\ users[last.email].refresh_token = last.result.refresh_token

\* C7: an unexpired access token presented to the refresh operation is
\* answered 401 'Invalid scope for requested token'.
C7_WrongScope ==
    (last.op = "refresh_token" /\ IsAccessToken(last.token, last.at))
    => (last.status = 401 /\ last.detail = "Invalid scope for requested token")

\* C8: the authentication gate resolves an unexpired access token to the
\* row whose email is the token's subject (or the request dies of a cache
\* failure); every cache entry holds the snapshot of the row its key names.
C8_SubjectUnchanged ==
    /\ (last.op \in GateOps /\ IsAccessToken(last.token, last.at))
         => \/ /\ last.status = 200
               /\ last.result.user.email = last.token.claims.sub
               /\ get_user_by_email(last.token.claims.sub, users) # None
            \/ last.status = 500 /\ last.detail = "redis ConnectionError"
    /\ \A k \in Emails :
         cache[k] # None => pickle_loads(cache[k].value).email = k
    /\ \A r \in ReqIds :
         (IF Idle(r) THEN FALSE ELSE reqs[r].op \in GateOps)
         => reqs[r].user.email = reqs[r].token.claims.sub

\* the gate has resolved a caller from the cache while another user exists
C8_Witness ==
    /\ last.op = "me" /\ last.status = 200
    /\ last.result.source = "cache"
    /\ last.result.user.email = last.token.claims.sub
    /\ \E e \in Emails : e # last.result.user.email /\ users[e] # None

\* C9: the gate answers every request whose bearer token is not an unexpired
\* access token with 401 (and, when a token was sent, with the detail
\* 'Could not validate credentials'), and resolves nobody.
C9_GenericUnauthenticated ==
    (last.op \in GateOps /\ ~IsAccessToken(last.token, last.at))
    => /\ last.status = 401
       /\ last.token # None => last.detail = "Could not validate credentials"
       /\ last.result = None

\* C10: a caller served from the cache is served an entry younger than the
\* 300 seconds of the cache's time to live.
C10_CacheExpiry ==
    (last.op \in GateOps /\ last.status = 200 /\ last.result.source = "cache")
    => last.result.age < CACHE_TTL


\* C11: for every role R and allow-set S, the role gate built with S lets a
\* caller with role R through iff R is in S; otherwise the request is
\* answered 403 FORBIDDEN.
C11_RoleGate ==
    [][\A r \in ReqIds :
         (IF Idle(r) THEN FALSE
          ELSE reqs[r].op = "RoleAccess" /\ reqs'[r] # reqs[r])
         => IF reqs[r].user.role \in reqs[r].allowed_roles
            THEN /\ reqs'[r] = [reqs[r] EXCEPT !.pc = "permitted"]
                 /\ last' = last
            ELSE /\ reqs'[r] = None
                 /\ last'.op = "RoleAccess"
                 /\ last'.status = 403 /\ last'.detail = "FORBIDDEN"]_vars

\* a caller with the default role has passed a gate that allows that role
\* and does not allow admin
C11_Witness ==
    \E r \in ReqIds :
        IF Idle(r) THEN FALSE
        ELSE /\ reqs[r].op = "RoleAccess" /\ reqs[r].pc = "permitted"
             /\ reqs[r].user.role = DefaultRole
             /\ reqs[r].allowed_roles = {DefaultRole, "moderator"}


\* the step in which GET /contacts/all answers a caller the gate resolved
AllAnswered ==
    /\ last'.op = "get_all_contacts"
    /\ last'.result # None
    /\ now' = now
    /\ (last' # last \/ cache' # cache)

\* C12 as stated: whoever is answered 200 by the all-contacts listing holds
\* the role moderator or admin in the users table at that time, cached
\* snapshot or not.
C12_StoredRoleGate ==
    (last.op = "get_all_contacts" /\ last.status = 200)
    => last.result.stored \in {"admin", "moderator"}

\* C12, amended: the listing is answered 200 iff the role of the identity
\* the gate resolved is moderator or admin, and 403 otherwise; that identity
\* is the cached snapshot of the caller while one exists, and the row of the
\* users table (hence the stored role) when none exists.
C12_ResolvedRoleGate ==
    [][AllAnswered =>
         LET e == last'.email
             cached == cache_get(cache, e, now) IN
         /\ (last'.status = 200) <=> (last'.result.role \in {"admin", "moderator"})
         /\ last'.status # 200 => (last'.status = 403 /\ last'.result.value = None)
         /\ last'.result.stored = users[e].role
         /\ IF cached = None
            THEN last'.result.role = users[e].role
            ELSE last'.result.role = pickle_loads(cached).role]_vars

\* a caller demoted to the default role in the users table is listed every
\* contact from the snapshot that still says admin
C12_Witness ==
    /\ last.op = "get_all_contacts" /\ last.status = 200
    /\ last.result.role = "admin"
    /\ last.result.stored = DefaultRole
    /\ Len(last.result.value) > 0
    /\ \E i \in DOMAIN last.result.value : last.result.value[i].user # last.email


ContactOps == {"get_contacts", "get_all_contacts", "get_contact",
               "create_contact", "update_contact", "delete_contact"}

\* the contacts an answer of a contacts route carries
ReturnedRows(a) ==
    IF a.op \notin ContactOps THEN {}
    ELSE IF a.result = None THEN {}
    ELSE IF a.op \in {"get_contacts", "get_all_contacts"}
    THEN IF a.status = 200
         THEN {a.result.value[i] : i \in DOMAIN a.result.value}
         ELSE {}
    ELSE IF a.result.value = None THEN {}
    ELSE {a.result.value}

\* C13: whatever get_contact and get_contacts return to a caller is owned
\* by that caller, the subject of the token; a contact of another user is
\* carried only by an answer of the all-contacts listing to a caller whose
\* resolved role is in the allow-set.
C13_OwnerOnly ==
    last.op \in ContactOps =>
      /\ last.result # None => last.email = last.token.claims.sub
      /\ \A c \in ReturnedRows(last) :
           c.user # last.email
           => /\ last.op = "get_all_contacts"
              /\ last.result.role \in access_to_route_all

\* a caller has listed their contacts while the table holds a contact of
\* somebody else, and has got exactly their own
C13_Witness ==
    /\ last.op = "get_contacts" /\ last.status = 200
    /\ last.result.args.query = NoQuery /\ last.result.args.offset = 0
    /\ Len(last.result.value) = 1
    /\ \E i \in DOMAIN contacts :
         IF contacts[i] = None THEN FALSE
         ELSE contacts[i].user # last.email
    /\ \A i \in DOMAIN contacts :
         (IF contacts[i] = None THEN FALSE ELSE contacts[i].user = last.email)
         => contacts[i] \in ReturnedRows(last)


\* C14: the confirmed flag only goes from false to true. A row is created
\* unconfirmed; a confirmed row stays confirmed; a valid confirmation token
\* of an unconfirmed user sets the flag (and nothing else) and is answered
\* 200; a valid confirmation token of a confirmed user is answered 200 and
\* leaves the users table as it is.
C14_ConfirmedMonotonic ==
    [][/\ \A e \in Emails :
            IF users[e] = None
            THEN users'[e] # None => ~users'[e].confirmed
            ELSE /\ users'[e] # None
                 /\ users[e].confirmed => users'[e].confirmed
       /\ (last' # last /\ last'.op = "confirmed_email")
            => LET res == get_email_from_token(last'.token, now)
                   user == IF res.ok THEN get_user_by_email(res.value, users)
                           ELSE None IN
               IF user = None THEN users' = users /\ last'.status # 200
               ELSE IF user.confirmed
               THEN /\ last'.status = 200
                    /\ users' = users
               ELSE /\ last'.status = 200
                    /\ users' = [users EXCEPT ![user.email].confirmed = TRUE]
      ]_vars

\* a confirmation token has been redeemed a second time
C14_Witness ==
    /\ last.op = "confirmed_email" /\ last.status = 200
    /\ last.result.message = "Verification has already been passed"
    /\ users[last.email].confirmed
    /\ \E e \in Emails : IF users[e] = None THEN FALSE ELSE ~users[e].confirmed


\* C15: a signup with an email that already has a row is answered 409, and
\* neither the users table nor the set of mails sent changes.
C15_SignupConflict ==
    [][(/\ last' # last
        /\ last'.op = "signup"
        /\ get_user_by_email(last'.email, users) # None)
       => (/\ last'.status = 409
           /\ users' = users
           /\ issued' = issued)]_vars


\* the step in which one of the routes in ops answers a caller the gate
\* resolved
ContactAnswered(ops) ==
    /\ last' # last
    /\ last'.op \in ops
    /\ last'.result # None

\* the caller of the answer owns a contact with that id in table db
Owns(a, db) ==
    LET id == a.result.args.contact_id IN
    IF id \notin DOMAIN db THEN FALSE
    ELSE IF db[id] = None THEN FALSE
    ELSE db[id].user = a.email

\* C16: update_contact and delete_contact of an id that does not exist or
\* belongs to another user leave the table as it is and, asked for such an
\* id, answer 404; a row changes or goes only in an update or delete of that
\* id by its owner.
C16_ForeignOrMissing ==
    [][/\ ContactAnswered({"update_contact", "delete_contact"})
            => /\ ~Owns(last', contacts) => contacts' = contacts
               /\ (~Owns(last', contacts) /\ reqs' = reqs)
                    => /\ last'.status = 404
                       /\ last'.detail = "Contact not found"
               /\ last'.status = 404 => contacts' = contacts
       /\ \A i \in DOMAIN contacts :
            contacts'[i] # contacts[i]
            => /\ last'.op \in {"update_contact", "delete_contact"}
               /\ last'.result.args.contact_id = i
               /\ last'.email = contacts[i].user
               /\ last'.token.claims.sub = contacts[i].user
      ]_vars

\* a caller has tried to update a contact of another user
C16_Witness ==
    /\ last.op = "update_contact" /\ last.status = 404
    /\ last.result.args.contact_id \in DOMAIN contacts
    /\ contacts[last.result.args.contact_id] # None
    /\ contacts[last.result.args.contact_id].user # last.email
    /\ contacts[last.result.args.contact_id].name # last.result.args.body.name


\* C17: create_contact is answered 201 with a row that carries the fields of
\* the body, the caller as owner and an id no row has had; the table is the
\* old table with that one row added; get_contact of that id by the caller
\* finds the row, and whenever get_contact answers 200 it returns the row
\* the table holds under that id.
C17_Create ==
    [][/\ ContactAnswered({"create_contact"})
            => LET c == last'.result.value
                   body == last'.result.args.body
                   user == get_user_by_email(last'.email, users) IN
               /\ last'.status = 201
               /\ last'.email = last'.token.claims.sub
               /\ c.name = body.name /\ c.lastname = body.lastname
               /\ c.email = body.email /\ c.phone = body.phone
               /\ c.birthdate = body.birthdate
               /\ c.others_info = body.others_info
               /\ c.user = last'.email
               /\ c.id \notin DOMAIN contacts
               /\ contacts' = Append(contacts, c)
               /\ c.id = Len(contacts')
               /\ repository_get_contact(c.id, contacts', user) = c
       /\ Len(contacts') # Len(contacts)
            => ContactAnswered({"create_contact"})
       /\ (ContactAnswered({"get_contact"}) /\ last'.status = 200)
            => /\ last'.result.value = contacts[last'.result.args.contact_id]
               /\ last'.result.value.id = last'.result.args.contact_id
      ]_vars

\* a second contact has been created, next to a contact of another user
C17_Witness ==
    /\ last.op = "create_contact" /\ last.status = 201
    /\ Len(contacts) = 2
    /\ contacts[2] = last.result.value
    /\ contacts[1] # None
    /\ contacts[1].user # last.email


\* C18: update_contact of a contact the caller owns is answered 200 with the
\* row after the update: its seven fields are the body's, its id and owner
\* are the old ones, and the other rows are untouched; no step ever changes
\* the id or the owner of a row.
C18_Update ==
    [][/\ (ContactAnswered({"update_contact"}) /\ Owns(last', contacts))
            => LET id == last'.result.args.contact_id
                   body == last'.result.args.body
                   c == last'.result.value IN
               /\ last'.status = 200
               /\ c = contacts'[id]
               /\ c.name = body.name /\ c.lastname = body.lastname
               /\ c.email = body.email /\ c.phone = body.phone
               /\ c.birthdate = body.birthdate
               /\ c.others_info = body.others_info
               /\ c.completed = body.completed
               /\ c.id = contacts[id].id /\ c.user = contacts[id].user
               /\ \A i \in DOMAIN contacts : i # id => contacts'[i] = contacts[i]
               /\ Len(contacts') = Len(contacts)
       /\ \A i \in DOMAIN contacts :
            (IF contacts[i] = None THEN FALSE ELSE contacts'[i] # None)
            => /\ contacts'[i].user = contacts[i].user
               /\ contacts'[i].id = contacts[i].id
      ]_vars

\* a caller has changed every field of one of two own contacts
C18_Witness ==
    /\ last.op = "update_contact" /\ last.status = 200
    /\ last.result.value = Niko @@ [id |-> 2, user |-> last.email]
    /\ Len(contacts) = 2
    /\ contacts[2] = last.result.value
    /\ contacts[1] = John @@ [id |-> 1, user |-> last.email]

\* C19: a delete answered 204 has removed the contact, which its caller
\* owned, and nothing else; a delete whose ownership check passed is
\* answered 204; get_contact, update_contact and delete_contact that answer
\* for an id whose contact has been deleted answer 404 and change nothing,
\* also when the answer is that of a delete which passed its ownership
\* check before another delete removed the contact.
C19_Delete ==
    [][/\ (ContactAnswered({"delete_contact"}) /\ last'.status = 204)
            => LET id == last'.result.args.contact_id IN
               /\ Owns(last', contacts)
               /\ last'.result.value = contacts[id]
               /\ contacts' = [contacts EXCEPT ![id] = None]
       /\ \A r \in ReqIds :
            (IF Idle(r) THEN FALSE
             ELSE reqs[r].op = "delete_contact" /\ reqs'[r] # reqs[r])
            => /\ reqs'[r] = None
               /\ last'.op = "delete_contact"
               /\ last'.result.args.contact_id = reqs[r].contact_id
               /\ last'.email = reqs[r].email
       /\ (/\ ContactAnswered({"get_contact", "update_contact", "delete_contact"})
           /\ last'.result.args.contact_id \in DOMAIN contacts
           /\ contacts[last'.result.args.contact_id] = None)
            => /\ last'.status = 404
               /\ contacts' = contacts
      ]_vars


\* C20: the gate, given an unexpired access token for subject e: with an
\* entry under e in the cache it resolves the snapshot of that entry and
\* leaves cache and users table alone; with none it answers 401 and writes
\* nothing when the users table has no row for e, and otherwise stores the
\* row of e under key e and, unless the cache fails at the following
\* expire, resolves that row.
C20_GateHitMiss ==
    [][\A r \in GateReqs :
         /\ Idle(r) =>
              LET answers == last' # last /\ last'.op \in GateOps
                  suspends == reqs'[r] # None
                  token == IF suspends THEN reqs'[r].token ELSE last'.token IN
              (IF answers \/ suspends THEN IsAccessToken(token, now) ELSE FALSE)
              => LET e == token.claims.sub IN
                 IF cache[e] # None
                 THEN /\ cache' = cache
                      /\ users' = users
                      /\ IF answers
                         THEN /\ last'.status = 200
                              /\ last'.result.source = "cache"
                              /\ last'.result.user = cache[e].value.pickle
                         ELSE /\ reqs'[r].pc = "handler"
                              /\ reqs'[r].user = cache[e].value.pickle
                 ELSE IF get_user_by_email(e, users) = None
                 THEN /\ answers /\ ~suspends
                      /\ last'.status = 401
                      /\ cache' = cache
                 ELSE /\ suspends /\ ~answers
                      /\ reqs'[r].pc = "gate_expire"
                      /\ reqs'[r].user = users[e]
                      /\ cache'[e] # None
                      /\ cache'[e].value = [pickle |-> users[e]]
                      /\ \A k \in Emails : k # e => cache'[k] = cache[k]
                      /\ users' = users
         /\ (IF Idle(r) THEN FALSE
             ELSE reqs[r].pc = "gate_expire" /\ reqs'[r] # reqs[r])
              => \/ last'.status = 500 /\ last'.detail = "redis ConnectionError"
                 \/ /\ cache'[reqs[r].email].value = [pickle |-> reqs[r].user]
                    /\ IF reqs[r].op = "me"
                       THEN /\ last'.status = 200
                            /\ last'.result.source = "store"
                            /\ last'.result.user = reqs[r].user
                       ELSE /\ reqs'[r].pc = "handler"
                            /\ reqs'[r].user = reqs[r].user]_vars

\* the gate has resolved a caller from a snapshot that differs from the
\* caller's row, which it did not read
C20_Witness ==
    /\ last.op = "me" /\ last.status = 200
    /\ last.result.source = "cache"
    /\ cache[last.email] # None
    /\ last.result.user = cache[last.email].value.pickle
    /\ last.result.user # users[last.email]


\* the ids of the rows a listing has to choose from: the rows of the table
\* that are the caller's (every row, for the listing of all contacts) and
\* contain the search text in name, lastname or email, case ignored
Matching(a) ==
    {i \in DOMAIN contacts :
        IF contacts[i] = None THEN FALSE
        ELSE /\ a.op = "get_contacts" => contacts[i].user = a.email
             /\ \/ ilike(contacts[i].name, a.result.args.query)
                \/ ilike(contacts[i].lastname, a.result.args.query)
                \/ ilike(contacts[i].email, a.result.args.query)}

IsEmailToken(token, t) ==
    IF token = None THEN FALSE
    ELSE LET payload == jwt_decode(token, SECRET_KEY, t) IN
         IF payload = JWTError THEN FALSE
         ELSE "sub" \in DOMAIN payload /\ "scope" \notin DOMAIN payload

\* C22: a confirmation token presented to the authentication gate or to the
\* refresh operation is answered 401 (by the gate with the detail 'Could not
\* validate credentials'); nobody is resolved, no request goes on to its
\* route, no token is issued and no row changes.
C22_EmailTokenRejected ==
    [][(/\ last' # last
        /\ last'.op \in GateOps \cup {"refresh_token"}
        /\ IsEmailToken(last'.token, now))
       => (/\ last'.status = 401
           /\ last'.op \in GateOps
                => last'.detail = "Could not validate credentials"
           /\ last'.result = None
           /\ reqs' = reqs
           /\ users' = users
           /\ issued' = issued
           /\ cache' = cache)]_vars


\* C23: request_email answers 200 with a message for every email and never
\* changes the users table: 'already confirmed' and no mail for a confirmed
\* user, the generic message and one mail for an unconfirmed user, the
\* generic message and no mail for an email without a row.
C23_RequestEmail ==
    [][(last' # last /\ last'.op = "request_email")
       => LET user == get_user_by_email(last'.email, users) IN
          /\ last'.status = 200
          /\ users' = users
          /\ IF user = None
             THEN /\ last'.result.message = "Check your email for confirmation."
                  /\ last'.result.tasks = <<>>
                  /\ issued' = issued
             ELSE IF user.confirmed
             THEN /\ last'.result.message = "Your email is already confirmed"
                  /\ last'.result.tasks = <<>>
                  /\ issued' = issued
             ELSE /\ last'.result.message = "Check your email for confirmation."
                  /\ Len(last'.result.tasks) = 1
                  /\ last'.result.tasks[1].email = last'.email]_vars

====
